---------------------------- MODULE Spec2Model ----------------------------
(***************************************************************************)
(* A model of dateutil's tz module (src/src/dateutil/tz/tz.py):            *)
(*   - the gettz zone registry with its weak and strong caches,            *)
(*   - the iCalendar zone's component selection,                           *)
(*   - the tzrange recurrence zone and its default rules,                  *)
(*   - the resolver functions datetime_exists and resolve_imaginary,       *)
(*   - tzstr, tzoffset and tzutc and the comparison of zones,              *)
(*   - the tzical parser of VTIMEZONE blocks,                              *)
(*   - gettz's resolution of a name in an environment.                     *)
(*   - _find_comp as a function and as called by two threads.              *)
(***************************************************************************)
EXTENDS Integers, Sequences, FiniteSets, TLC

VARIABLES
    instances,      \* GettzFunc.__instances: name -> object (NoObj = no entry)
    strong_cache,   \* GettzFunc.__strong_cache: sequence of [k, o], oldest first
    strong_cache_size, \* GettzFunc.__strong_cache_size
    cache_lock,     \* GettzFunc._cache_lock: the thread holding it, or NoThread
    pc,             \* each thread's position in GettzFunc.__call__
    arg,            \* each thread's argument name
    rv,             \* each thread's local rv / returned value
    held,           \* objects of the weak cache some caller still references
    made,           \* history: made[o] = the name object o was constructed for
    stale,          \* history: objects constructed before the last cache_clear
    since,          \* history: since[n] = the cacheable keys requested after the
                    \*   latest gettz(n); Tainted before the first gettz(n) and
                    \*   after a cache_clear or a set_cache_size
    zone,           \* a zone object constructed by the program under test
    op,             \* the latest method or function called with it
    inp,            \* the argument of that call
    out             \* what the call returned

gvars == <<instances, strong_cache, strong_cache_size, cache_lock, pc, arg, rv,
           held, made, stale, since>>

(* The zone under test and the latest call made on it *)
zvars == <<zone, op, inp, out>>

vars == <<gvars, zvars>>

-----------------------------------------------------------------------------
(* Bounds of the model *)

MaxObj == 3        \* zone objects constructed during one behaviour
MaxSize == 2       \* largest argument given to set_cache_size

Threads == {"t1", "t2"}

(* Python's None as a gettz argument and the names the callers use *)
NoneName == "<None>"
FileNames == {"America/Chicago", "Europe/Monaco", "Pacific/Easter"}
Names == FileNames \cup {"PST", "No/Such", NoneName}

-----------------------------------------------------------------------------
(* Values *)

NoObj == 0         \* Python's None as a zone result
NoThread == "none"
Tainted == {"<tainted>"}

DefaultStrongCacheSize == 8


Objs == 1..MaxObj
UTCObj == MaxObj + 1   \* the tzutc singleton UTC, made when the module is imported

-----------------------------------------------------------------------------
(* The environment GettzFunc.nocache reads: the TZ variable, the local zone *)
(* files, the zone files under TZPATHS, time.tzname.                        *)

EnvTZ == NoneName                  \* os.environ["TZ"]; NoneName: not set
LocalFileParses == FALSE           \* some file of TZFILES exists and parses
AbsFiles == {}                     \* absolute paths naming a readable zone file
PathFiles == FileNames             \* names with a parsable file under TZPATHS
DigitNames == {"EST5EDT", "EST5EDT,M"}  \* names holding a digit
TzstrNames == {"EST5EDT"}          \* names tzstr() parses
AbsNames == {"/etc/localtime"}     \* names os.path.isabs accepts
TimeTzname == {"PST", "PDT"}       \* time.tzname

(* The kind of zone nocache(name) builds; "none" is the result None. *)
nocache(name) ==
    LET n1 == IF name \in {NoneName, ""} /\ EnvTZ # NoneName THEN EnvTZ ELSE name
    IN  IF n1 = NoneName \/ n1 \in {"", ":"}
        THEN IF LocalFileParses THEN "tzfile" ELSE "tzlocal"
        ELSE IF n1 \in AbsNames
        THEN IF n1 \in AbsFiles THEN "tzfile" ELSE "none"
        ELSE IF n1 \in PathFiles THEN "tzfile"
        ELSE IF n1 \in DigitNames
        THEN IF n1 \in TzstrNames THEN "tzstr" ELSE "none"
        ELSE IF n1 \in {"GMT", "UTC"} THEN "utc"
        ELSE IF n1 \in TimeTzname THEN "tzlocal"
        ELSE "none"

(* A test for storing rv that lets a tzlocal through. *)
CachesLocal(name) == ~ (name = NoneName \/ nocache(name) = "none")

(* GettzFunc.__call__'s test for storing rv: the name is not None and rv is *)
(* neither a tzlocal nor None.                                              *)
Cacheable(name) ==
    ~ (name = NoneName \/ nocache(name) = "tzlocal" \/ nocache(name) = "none")

-----------------------------------------------------------------------------
(* References and the garbage collector *)

Range(sc) == {sc[i] : i \in 1..Len(sc)}
StrongObjs == {e.o : e \in Range(strong_cache)}

(* An object is alive while something references it strongly: the module's  *)
(* UTC, a caller, the strong cache, or the local rv of a running call.      *)
AliveIn(o, hd, sc, prog, ret) ==
    \/ o = UTCObj
    \/ o \in hd
    \/ o \in {e.o : e \in Range(sc)}
    \/ \E t \in Threads : prog[t] = "strong" /\ ret[t] = o

Alive(o) == AliveIn(o, held, strong_cache, pc, rv)

(* A weak dictionary that keeps nothing. *)
Forgetful(inst, hd, sc, prog, ret) == [n \in Names |-> NoObj]

(* weakref.WeakValueDictionary: an entry goes when its value is no longer   *)
(* referenced (reference counting frees the object at once).                *)
Sweep(inst, hd, sc, prog, ret) ==
    [n \in Names |-> IF inst[n] # NoObj /\ AliveIn(inst[n], hd, sc, prog, ret)
                     THEN inst[n] ELSE NoObj]

-----------------------------------------------------------------------------
(* The OrderedDict operations of the strong cache *)

RECURSIVE Without(_, _)
Without(sc, name) ==
    IF sc = <<>> THEN <<>>
    ELSE IF Head(sc).k = name THEN Without(Tail(sc), name)
    ELSE <<Head(sc)>> \o Without(Tail(sc), name)

(* strong_cache.pop(name, dflt) *)
PopValue(sc, name, dflt) ==
    IF \E e \in Range(sc) : e.k = name
    THEN (CHOOSE e \in Range(sc) : e.k = name).o
    ELSE dflt

(* An assignment that leaves a key already present where it is. *)
TouchInPlace(sc, name, obj) ==
    IF \E e \in Range(sc) : e.k = name THEN sc
    ELSE Append(sc, [k |-> name, o |-> obj])

(* strong_cache[name] = strong_cache.pop(name, rv): the key moves to the end *)
Touch(sc, name, obj) ==
    Append(Without(sc, name), [k |-> name, o |-> PopValue(sc, name, obj)])

(* if len(strong_cache) > size: strong_cache.popitem(last=False) *)
EvictOne(sc, size) == IF Len(sc) > size THEN Tail(sc) ELSE sc

(* One eviction where a loop is needed. *)
EvictOnce(sc, size) == IF Len(sc) > size THEN Tail(sc) ELSE sc

(* while len(strong_cache) > size: strong_cache.popitem(last=False) *)
RECURSIVE EvictAll(_, _)
EvictAll(sc, size) == IF Len(sc) > size THEN EvictAll(Tail(sc), size) ELSE sc

-----------------------------------------------------------------------------
(* GettzFunc *)

GettzInit ==
    /\ instances = [n \in Names |-> NoObj]
    /\ strong_cache = <<>>
    /\ strong_cache_size = DefaultStrongCacheSize
    /\ cache_lock = NoThread
    /\ pc = [t \in Threads |-> "idle"]
    /\ arg = [t \in Threads |-> NoneName]
    /\ rv = [t \in Threads |-> NoObj]
    /\ held = {}
    /\ made = <<>>
    /\ stale = {}
    /\ since = [n \in Names |-> Tainted]

(* No zone is under test. *)
NoZone == [kind |-> "none"]
NoCall == zone = NoZone /\ op = "none" /\ inp = NoObj /\ out = NoObj

(* A lock that excludes nobody. *)
Unlocked == TRUE

(* with self._cache_lock: the lock can be taken when no thread holds it. *)
Acquirable == cache_lock = NoThread

(* A call enters the lock and reads rv = self.__instances.get(name, None). *)
Call(t, name) ==
    /\ pc[t] = "idle"
    /\ Acquirable
    /\ instances[name] # NoObj \/ Len(made) < MaxObj
    /\ cache_lock' = t
    /\ arg' = [arg EXCEPT ![t] = name]
    /\ rv' = [rv EXCEPT ![t] = instances[name]]
    /\ pc' = [pc EXCEPT ![t] = IF instances[name] = NoObj THEN "resolve" ELSE "strong"]
    /\ UNCHANGED <<instances, strong_cache, strong_cache_size, held, made, stale,
                   since, zvars>>

(* The miss: rv = self.nocache(name); store it, or return it at once. *)
Resolve(t) ==
    /\ pc[t] = "resolve"
    /\ Len(made) < MaxObj
    /\ LET name == arg[t]
           kind == nocache(name)
           fresh == Len(made) + 1
           obj == IF kind = "none" THEN NoObj
                  ELSE IF kind = "utc" THEN UTCObj
                  ELSE fresh
       IN  /\ made' = IF obj = fresh THEN Append(made, name) ELSE made
           /\ IF Cacheable(name)
              THEN /\ instances' = [instances EXCEPT ![name] = obj]
                   /\ rv' = [rv EXCEPT ![t] = obj]
                   /\ pc' = [pc EXCEPT ![t] = "strong"]
                   /\ UNCHANGED <<cache_lock, arg, held>>
              ELSE /\ pc' = [pc EXCEPT ![t] = "idle"]
                   /\ arg' = [arg EXCEPT ![t] = NoneName]
                   /\ rv' = [rv EXCEPT ![t] = NoObj]
                   /\ cache_lock' = NoThread
                   /\ UNCHANGED <<instances, held>>
    /\ UNCHANGED <<strong_cache, strong_cache_size, stale, since, zvars>>

(* The history of requests: a call for name restarts the record of name and *)
(* joins the record of every other key; a record that reaches the size of   *)
(* the strong cache is given up (Tainted), as one a clear or a resize ended.*)
Requested(rec, n, name, size) ==
    IF n = name THEN (IF size > 0 THEN {} ELSE Tainted)
    ELSE IF rec = Tainted THEN Tainted
    ELSE IF Cardinality(rec \cup {name}) >= size THEN Tainted
    ELSE rec \cup {name}

(* The strong cache is updated, the lock released and rv returned to the    *)
(* caller, who now references it.                                           *)
Strong(t) ==
    /\ pc[t] = "strong"
    /\ LET name == arg[t]
           sc == EvictOne(Touch(strong_cache, name, rv[t]), strong_cache_size)
       IN  /\ strong_cache' = sc
           /\ held' = held \cup {rv[t]}
           /\ pc' = [pc EXCEPT ![t] = "idle"]
           /\ arg' = [arg EXCEPT ![t] = NoneName]
           /\ rv' = [rv EXCEPT ![t] = NoObj]
           /\ instances' = Sweep(instances, held', sc, pc', rv')
           /\ since' = [n \in Names |-> Requested(since[n], n, name, strong_cache_size)]
    /\ cache_lock' = NoThread
    /\ UNCHANGED <<strong_cache_size, made, stale, zvars>>

(* set_cache_size runs under the lock from start to end. *)
set_cache_size(size) ==
    /\ Acquirable
    /\ strong_cache_size' = size
    /\ strong_cache' = EvictAll(strong_cache, size)
    /\ instances' = Sweep(instances, held, strong_cache', pc, rv)
    /\ since' = [n \in Names |-> Tainted]
    /\ UNCHANGED <<cache_lock, pc, arg, rv, held, made, stale, zvars>>

(* A clear that forgets the weak tier only. *)
ClearWeakOnly ==
    /\ Acquirable
    /\ instances' = [n \in Names |-> NoObj]
    /\ stale' = 1..Len(made)
    /\ since' = [n \in Names |-> Tainted]
    /\ held' = {}
    /\ UNCHANGED <<strong_cache, strong_cache_size, cache_lock, pc, arg, rv, made,
                   zvars>>

(* cache_clear runs under the lock from start to end: a new, empty          *)
(* WeakValueDictionary and an emptied OrderedDict.  The objects made so far *)
(* can never be found in a cache again, so the references callers keep to   *)
(* them are followed no further.                                            *)
cache_clear ==
    /\ Acquirable
    /\ instances' = [n \in Names |-> NoObj]
    /\ strong_cache' = <<>>
    /\ stale' = 1..Len(made)
    /\ since' = [n \in Names |-> Tainted]
    /\ held' = {}
    /\ UNCHANGED <<strong_cache_size, cache_lock, pc, arg, rv, made, zvars>>

(* A caller lets go of a zone it was given. *)
Drop(o) ==
    /\ o \in held
    /\ held' = held \ {o}
    /\ instances' = Sweep(instances, held', strong_cache, pc, rv)
    /\ UNCHANGED <<strong_cache, strong_cache_size, cache_lock, pc, arg,
                   rv, made, stale, since, zvars>>

GettzNext ==
    \/ \E t \in Threads, name \in Names : Call(t, name)
    \/ \E t \in Threads : Resolve(t)
    \/ \E t \in Threads : Strong(t)
    \/ \E size \in 0..MaxSize : set_cache_size(size)
    \/ cache_clear
    \/ \E o \in Objs : Drop(o)

Init == GettzInit /\ NoCall
Next == GettzNext
Spec == Init /\ [][Next]_vars

-----------------------------------------------------------------------------
(* Properties of gettz *)

MadeFor(n) == {o \in DOMAIN made : made[o] = n}

(* The object the latest finished or running gettz(n) constructed or found: *)
(* a hit returns the entry of __instances, and a new object for n is only   *)
(* constructed on a miss, so it is the latest object constructed for n.     *)
LastReturned(n) == CHOOSE o \in MadeFor(n) : \A o2 \in MadeFor(n) : o2 <= o

(* Thread t enters gettz(n) in this step. *)
Enters(t, n) == pc[t] = "idle" /\ pc'[t] # "idle" /\ arg'[t] = n

C5_SingleStoredWinner ==
    /\ \A o \in DOMAIN made :
           (Cacheable(made[o]) /\ o \notin stale /\ Alive(o)) => instances[made[o]] = o
    /\ \A n \in Names :
           instances[n] # NoObj =>
               /\ Cacheable(n)
               /\ IF nocache(n) = "utc" THEN instances[n] = UTCObj
                  ELSE instances[n] \in MadeFor(n)
    /\ \A i, j \in 1..Len(strong_cache) :
           strong_cache[i].k = strong_cache[j].k => i = j
    /\ \A e \in Range(strong_cache) : instances[e.k] = e.o
    /\ \A t \in Threads :
           pc[t] = "strong" => (rv[t] # NoObj /\ rv[t] = instances[arg[t]])

(* Witness of C5: a call returns an object another call constructed and     *)
(* stored, while a different key has its own entry.                         *)
C5_Witness ==
    \E t \in Threads :
        /\ pc[t] = "strong"
        /\ rv[t] \in held
        /\ \E n \in Names : n # arg[t] /\ instances[n] # NoObj
        /\ \A n \in Names : Cardinality(MadeFor(n)) <= 1

(* The last k entries of a sequence *)
LastEntries(sc, k) ==
    IF k >= Len(sc) THEN sc ELSE SubSeq(sc, Len(sc) - k + 1, Len(sc))

(* C6: the strong cache never holds more entries than its configured size,  *)
(* which is 8 until set_cache_size changes it, and set_cache_size(n) keeps  *)
(* the min(n, length) most recently used entries, in their order.           *)
C6_StrongCacheBounded ==
    /\ strong_cache_size = 8 /\ Len(strong_cache) <= strong_cache_size
    /\ [][/\ Len(strong_cache') <= strong_cache_size'
          /\ strong_cache_size' # strong_cache_size
             => \E size \in 0..MaxSize : set_cache_size(size)
          /\ \A size \in 0..MaxSize :
                 set_cache_size(size)
                 => /\ strong_cache_size' = size
                    /\ strong_cache' = LastEntries(strong_cache, size)
         ]_vars

(* Witness of C6: the cache is full at a configured size and an entry that  *)
(* was in it has been evicted.                                              *)
C6_Witness ==
    /\ strong_cache_size \in 1..MaxSize
    /\ Len(strong_cache) = strong_cache_size
    /\ \E o \in held : o \notin stale /\ o \notin StrongObjs

(* C7: a cacheable key k requested by gettz stays in the strong cache, with *)
(* the object that call returned, while fewer than S other distinct         *)
(* cacheable keys have been requested since and neither cache_clear nor     *)
(* set_cache_size was called; the next gettz(k) then returns that object,   *)
(* whether or not a caller still references it.  Every gettz(k) that        *)
(* reaches the strong cache, hit or miss, moves k to the most recently used *)
(* end, keeps the order of the other keys, and what overflows the size S is *)
(* dropped from the least recently used end (with S = 0 nothing is kept).   *)
C7_MostRecentlyUsedRetained ==
    [][/\ \A n \in Names :
              (since'[n] # Tainted /\ Cardinality(since'[n]) < strong_cache_size')
              => /\ instances'[n] = LastReturned(n)'
                 /\ [k |-> n, o |-> LastReturned(n)'] \in Range(strong_cache')
       /\ \A t \in Threads, n \in Names :
              (Enters(t, n) /\ since[n] # Tainted
                  /\ Cardinality(since[n]) < strong_cache_size)
              => (pc'[t] = "strong" /\ rv'[t] = LastReturned(n))
       /\ \A t \in Threads :
              (pc[t] = "strong" /\ pc'[t] = "idle")
              => LET others == SelectSeq(strong_cache, LAMBDA e : e.k # arg[t])
                     used == Append(others, [k |-> arg[t], o |-> rv[t]])
                 IN  strong_cache' = LastEntries(used, strong_cache_size)
      ]_vars

(* Witness of C7: a call finds the object of its key, which no caller       *)
(* references any more, after another key was requested in between.         *)
C7_Witness ==
    \E t \in Threads :
        /\ pc[t] = "strong"
        /\ since[arg[t]] \notin {Tainted, {}}
        /\ rv[t] \notin held
        /\ rv[t] = LastReturned(arg[t])

(* C8: cache_clear leaves both tiers empty and the configured size as it    *)
(* was, and from then on no object constructed before the clear is in       *)
(* either tier or returned by a call that found it cached: the next         *)
(* gettz(k) constructs k again.                                             *)
C8_ClearDropsAll ==
    [][/\ cache_clear
          => /\ \A n \in Names : instances'[n] = NoObj
             /\ strong_cache' = <<>>
             /\ strong_cache_size' = strong_cache_size
       /\ \A n \in Names : instances'[n] \notin stale'
       /\ \A e \in Range(strong_cache') : e.o \notin stale'
       /\ \A t \in Threads : pc'[t] = "strong" => rv'[t] \notin stale'
      ]_vars

(* Witness of C8: after a clear a key that had an object before the clear   *)
(* has a new one in both tiers.                                             *)
C8_Witness ==
    \E o \in stale :
        /\ Cacheable(made[o])
        /\ instances[made[o]] \notin {NoObj, o}
        /\ instances[made[o]] \in StrongObjs

-----------------------------------------------------------------------------
(* Naive datetimes and timedeltas, as Python's datetime module has them: a  *)
(* datetime is a proleptic Gregorian ordinal and a second of the day.       *)

(* An optional Python value is a sequence: None is empty, v is <<v>>. *)
None == <<>>
Some(v) == <<v>>
Val(x) == x[1]

(* What a call gives: a returned value or a raised exception *)
Returned(v) == [ret |-> v]
Raised(e) == [exc |-> e]

IsLeap(y) == y % 4 = 0 /\ (y % 100 # 0 \/ y % 400 = 0)

DaysInMonth(y, m) ==
    IF m = 2 THEN (IF IsLeap(y) THEN 29 ELSE 28)
    ELSE IF m \in {4, 6, 9, 11} THEN 30 ELSE 31

DaysBeforeYear(y) ==
    (y - 1) * 365 + ((y - 1) \div 4) - ((y - 1) \div 100) + ((y - 1) \div 400)

RECURSIVE DaysBeforeMonth(_, _)
DaysBeforeMonth(y, m) ==
    IF m = 1 THEN 0 ELSE DaysBeforeMonth(y, m - 1) + DaysInMonth(y, m - 1)

(* date(y, m, d).toordinal() *)
ToOrdinal(y, m, d) == DaysBeforeYear(y) + DaysBeforeMonth(y, m) + d

(* datetime.datetime(y, m, d, hh, mm) *)
Datetime(y, m, d, hh, mm) == [ord |-> ToOrdinal(y, m, d), sec |-> hh * 3600 + mm * 60]

(* dt.weekday(): Monday is 0 and Sunday is 6 *)
Weekday(dt) == (dt.ord + 6) % 7

(* dt + datetime.timedelta(days=days, seconds=secs) *)
PlusDelta(dt, days, secs) ==
    LET total == dt.sec + secs
    IN  [ord |-> dt.ord + days + (total \div 86400), sec |-> total % 86400]

(* a < b and a <= b on naive datetimes *)
Before(a, b) == a.ord < b.ord \/ (a.ord = b.ord /\ a.sec < b.sec)
NotAfter(a, b) == a = b \/ Before(a, b)

-----------------------------------------------------------------------------
(* relativedelta, as far as tzrange uses it: the absolute month and day,    *)
(* the relative hours and the weekday with its ordinal n.                   *)

SU == 6

relativedelta(hours, month, day, weekday, n) ==
    [hours |-> hours, month |-> month, day |-> day, weekday |-> weekday, n |-> n]

(* datetime(year, 1, 1) + delta: the month and the day are replaced (the    *)
(* day cut to the length of the month), the hours added, and the result     *)
(* moved to the n-th given weekday on or after it (n > 0) or on or before   *)
(* it (n < 0).                                                              *)
PlusRelativedelta(year, delta) ==
    LET day == IF DaysInMonth(year, delta.month) < delta.day
               THEN DaysInMonth(year, delta.month) ELSE delta.day
        ret == PlusDelta(Datetime(year, delta.month, day, 0, 0), 0, delta.hours * 3600)
        nth == IF delta.n < 0 THEN -delta.n ELSE delta.n
        jumpdays == IF delta.n > 0
                    THEN (nth - 1) * 7 + ((7 - Weekday(ret) + delta.weekday) % 7)
                    ELSE -((nth - 1) * 7 + ((Weekday(ret) - delta.weekday) % 7))
    IN  PlusDelta(ret, jumpdays, 0)

-----------------------------------------------------------------------------
(* tzrange *)

MinYear == 2000
MaxYear == 2030
Years == MinYear..MaxYear
WallYears == {2021, 2022, 2023, 2024}

(* if dstabbr: neither None nor the empty string *)
Truthy(abbr) == abbr # None /\ abbr # Some("")

(* Explicit rules a caller may pass: the second Sunday of March and the     *)
(* first Sunday of November.                                                *)
StartSecondSundayMarch == relativedelta(2, 3, 1, SU, 2)
EndFirstSundayNovember == relativedelta(1, 11, 1, SU, 1)

(* A default start in March. *)
MarchStart == relativedelta(2, 3, 1, SU, 2)

(* relativedelta(hours=+2, month=4, day=1, weekday=SU(+1)) *)
DefaultStart == relativedelta(2, 4, 1, SU, 1)

(* A default end in November. *)
NovemberEnd == relativedelta(1, 11, 1, SU, 1)

(* relativedelta(hours=+1, month=10, day=31, weekday=SU(-1)) *)
DefaultEnd == relativedelta(1, 10, 31, SU, -1)

(* tzrange.__init__; the offsets are seconds.  bool(delta) is true of every *)
(* delta the model constructs, so hasdst tells whether there is one.        *)
tzrange(stdabbr, stdoffset, dstabbr, dstoffset, start, end) ==
    LET std_offset == IF stdoffset # None THEN Val(stdoffset) ELSE 0
        dst_offset == IF dstoffset # None THEN Val(dstoffset)
                      ELSE IF Truthy(dstabbr) /\ stdoffset # None
                      THEN std_offset + 3600
                      ELSE 0
        start_delta == IF Truthy(dstabbr) /\ start = None
                       THEN Some(DefaultStart) ELSE start
        end_delta == IF Truthy(dstabbr) /\ end = None
                     THEN Some(DefaultEnd) ELSE end
    IN  [kind |-> "tzrange",
         std_abbr |-> stdabbr, dst_abbr |-> dstabbr,
         std_offset |-> std_offset, dst_offset |-> dst_offset,
         start_delta |-> start_delta, end_delta |-> end_delta,
         dst_base_offset |-> dst_offset - std_offset,
         hasdst |-> start_delta # None]

(* tzrange.transitions(year): None, or the pair (start, end); adding the    *)
(* end rule None to a datetime is a TypeError.                              *)
transitions(z, year) ==
    IF ~ z.hasdst THEN Returned(None)
    ELSE IF z.end_delta = None THEN Raised("TypeError")
    ELSE Returned(<<PlusRelativedelta(year, Val(z.start_delta)),
                    PlusRelativedelta(year, Val(z.end_delta))>>)

(* tzrangebase.is_ambiguous(dt): the wall time lies in the hour(s) after    *)
(* the end of DST of its year that the clock shows twice.                   *)
is_ambiguous(z, dt) ==
    IF ~ z.hasdst THEN Returned(FALSE)
    ELSE LET tr == transitions(z, dt.year)
             end == tr.ret[2]
             naive == Datetime(dt.year, dt.month, dt.day, dt.hour, dt.minute)
         IN  IF tr = Raised("TypeError") THEN tr
             ELSE Returned(NotAfter(end, naive)
                           /\ Before(naive, PlusDelta(end, 0, z.dst_base_offset)))

(* The arguments the zones of the model are constructed from *)
StdOffsets == {None, Some(-18000)}
DstAbbrs == {None, Some(""), Some("EDT")}
DstOffsets == {None, Some(-14400)}
Starts == {None, Some(StartSecondSundayMarch)}
Ends == {None, Some(EndFirstSundayNovember)}

(* The wall times is_ambiguous is asked about: the nights around the ends   *)
(* of DST.                                                                  *)
Walls ==
    [year : WallYears, month : {10, 11}, day : {1, 5} \cup (25..31),
     hour : 0..2, minute : {0, 30}]

RangeInit ==
    /\ GettzInit
    /\ \E so \in StdOffsets, da \in DstAbbrs, do \in DstOffsets,
          st \in Starts, en \in Ends :
           zone = tzrange(Some("EST"), so, da, do, st, en)
    /\ op = "new" /\ inp = NoObj /\ out = NoObj

Transitions(year) ==
    /\ zone.kind = "tzrange" /\ op = "new"
    /\ op' = "transitions"
    /\ inp' = year
    /\ out' = transitions(zone, year)
    /\ UNCHANGED <<zone, gvars>>

IsAmbiguous(dt) ==
    /\ zone.kind = "tzrange" /\ op = "new"
    /\ dt.day <= DaysInMonth(dt.year, dt.month)
    /\ op' = "is_ambiguous"
    /\ inp' = dt
    /\ out' = is_ambiguous(zone, dt)
    /\ UNCHANGED <<zone, gvars>>

RangeNext ==
    \/ \E year \in Years : Transitions(year)
    \/ \E dt \in Walls : IsAmbiguous(dt)

SpecRange == RangeInit /\ [][RangeNext]_vars

-----------------------------------------------------------------------------
(* Properties of tzrange *)

(* The day of the month of the one Sunday among the days lo..hi of month m *)
SundayIn(y, m, lo, hi) ==
    CHOOSE d \in lo..hi : Weekday(Datetime(y, m, d, 0, 0)) = 6

EST5EDT == tzrange(Some("EST"), Some(-18000), Some("EDT"), None, None, None)

Wall(y, m, d, hh, mm) == [year |-> y, month |-> m, day |-> d, hour |-> hh, minute |-> mm]

(* C10, as stated: tzrange("EST", -18000, "EDT").is_ambiguous is true for   *)
(* the wall time 2023-11-05 01:30.                                          *)
C10_AmbiguousNov5 ==
    (op = "is_ambiguous" /\ zone = EST5EDT /\ inp = Wall(2023, 11, 5, 1, 30))
    => out = Returned(TRUE)

(* C10, as the code has it: tzrange("EST", -18000, "EDT") ends DST on the   *)
(* last Sunday of October, so is_ambiguous is false for 2023-11-05 01:30    *)
(* and true for 2023-10-29 01:30; it is true exactly for the wall times     *)
(* from 01:00 up to 02:00 on the last Sunday of October.                    *)
C10_AmbiguousLastSundayOctober ==
    (op = "is_ambiguous" /\ zone = EST5EDT)
    => /\ inp = Wall(2023, 11, 5, 1, 30) => out = Returned(FALSE)
       /\ inp = Wall(2023, 10, 29, 1, 30) => out = Returned(TRUE)
       /\ out = Returned(/\ inp.month = 10
                         /\ inp.day = SundayIn(inp.year, 10, 25, 31)
                         /\ inp.hour = 1)

(* Witness of C10: is_ambiguous was asked about 2023-11-05 01:30, a Sunday, *)
(* in the default zone.                                                     *)
C10_Witness ==
    /\ op = "is_ambiguous" /\ zone = EST5EDT
    /\ inp = Wall(2023, 11, 5, 1, 30)
    /\ Weekday(Datetime(2023, 11, 5, 1, 30)) = SU
    /\ out = Returned(FALSE)

-----------------------------------------------------------------------------
(* _tzicalvtz: the zone of a VTIMEZONE.  Wall times and offsets are whole   *)
(* hours; the rrule of a component is the set of its onsets, given, as the  *)
(* RFC has it, in the wall time before the transition.                      *)

MaxWall == 7             \* wall times asked about are 0..MaxWall
CacheMax == 10           \* entries _find_comp keeps

WallTimes == 0..MaxWall
IcalOffsets == {0, 1, 2}
Rrules == {{2}, {5}, {2, 5}}

(* _tzicalvtzcomp.__init__ *)
tzicalvtzcomp(tzoffsetfrom, tzoffsetto, isdst, rrule) ==
    [tzoffsetfrom |-> tzoffsetfrom, tzoffsetto |-> tzoffsetto,
     tzoffsetdiff |-> tzoffsetto - tzoffsetfrom, isdst |-> isdst, rrule |-> rrule]

(* _tzicalvtz.__init__ *)
tzicalvtz(comps) ==
    [kind |-> "ical", comps |-> comps, cachedate |-> <<>>, cachecomp |-> <<>>]

(* rrule.before(dt, inc=True): the last occurrence at or before dt, or None *)
before(rrule, dt) ==
    IF \E o \in rrule : o <= dt
    THEN Some(CHOOSE o \in rrule : o <= dt /\ \A o2 \in rrule : o2 <= dt => o2 <= o)
    ELSE None

(* _tzicalvtz._find_compdt *)
find_compdt(comp, dt, fold) ==
    before(comp.rrule,
           IF comp.tzoffsetdiff < 0 /\ fold = 1 THEN dt - comp.tzoffsetdiff ELSE dt)

(* The first loop of _find_comp from component i on: the index of the       *)
(* component with the latest onset, the earlier one on a tie; 0 is None.    *)
RECURSIVE LastComp(_, _, _, _, _, _)
LastComp(comps, dt, fold, i, lastcompdt, lastcomp) ==
    IF i > Len(comps) THEN lastcomp
    ELSE LET compdt == find_compdt(comps[i], dt, fold)
         IN  IF compdt # None /\ (lastcompdt = None \/ Val(lastcompdt) < Val(compdt))
             THEN LastComp(comps, dt, fold, i + 1, compdt, i)
             ELSE LastComp(comps, dt, fold, i + 1, lastcompdt, lastcomp)

(* The second loop of _find_comp: the first standard component; when there  *)
(* is none, comp[0] subscripts a component, which is a TypeError.           *)
FirstStandard(comps) ==
    IF \E i \in 1..Len(comps) : ~ comps[i].isdst
    THEN Returned(CHOOSE i \in 1..Len(comps) :
                      ~ comps[i].isdst /\ \A j \in 1..(i - 1) : comps[j].isdst)
    ELSE Raised("TypeError")

(* A cache position found by the wall time alone. *)
DateIndex(z, dt, fold) ==
    IF \E i \in 1..Len(z.cachedate) : z.cachedate[i][1] = dt
    THEN CHOOSE i \in 1..Len(z.cachedate) :
             /\ z.cachedate[i][1] = dt
             /\ \A j \in 1..(i - 1) : z.cachedate[j][1] # dt
    ELSE 0

(* The position of (dt, fold) in the cache, 0 when it is not there *)
CacheIndex(z, dt, fold) ==
    IF \E i \in 1..Len(z.cachedate) : z.cachedate[i] = <<dt, fold>>
    THEN CHOOSE i \in 1..Len(z.cachedate) :
             /\ z.cachedate[i] = <<dt, fold>>
             /\ \A j \in 1..(i - 1) : z.cachedate[j] # <<dt, fold>>
    ELSE 0

(* _tzicalvtz._find_comp: the index of the component it returns *)
find_comp(z, dt, fold) ==
    IF Len(z.comps) = 1 THEN Returned(1)
    ELSE IF CacheIndex(z, dt, fold) # 0
    THEN Returned(z.cachecomp[CacheIndex(z, dt, fold)])
    ELSE LET lastcomp == LastComp(z.comps, dt, fold, 1, None, 0)
         IN  IF lastcomp # 0 THEN Returned(lastcomp) ELSE FirstStandard(z.comps)

(* The caches of the zone after _find_comp(dt) *)
Cached(z, dt, fold) ==
    IF Len(z.comps) = 1 \/ CacheIndex(z, dt, fold) # 0
       \/ find_comp(z, dt, fold) = Raised("TypeError")
    THEN z
    ELSE LET dates == <<<<dt, fold>>>> \o z.cachedate
             found == <<find_comp(z, dt, fold).ret>> \o z.cachecomp
         IN  IF Len(dates) > CacheMax
             THEN [z EXCEPT !.cachedate = SubSeq(dates, 1, Len(dates) - 1),
                            !.cachecomp = SubSeq(found, 1, Len(found) - 1)]
             ELSE [z EXCEPT !.cachedate = dates, !.cachecomp = found]

(* _tzicalvtz.utcoffset of a datetime that is not None *)
utcoffset(z, dt, fold) ==
    LET comp == find_comp(z, dt, fold)
    IN  IF comp = Raised("TypeError") THEN comp
        ELSE Returned(z.comps[comp.ret].tzoffsetto)

(* The components and the zones of the model: one or two components *)
Comps ==
    {tzicalvtzcomp(f, t, d, r) : f \in IcalOffsets, t \in IcalOffsets,
                                 d \in BOOLEAN, r \in Rrules}

IcalZones ==
    {tzicalvtz(<<c>>) : c \in Comps} \cup {tzicalvtz(<<c1, c2>>) : c1 \in Comps, c2 \in Comps}

(* utcoffset has not been called with this fold. *)
NotCalled == [pending |-> TRUE]

IcalInit ==
    /\ GettzInit
    /\ zone \in IcalZones
    /\ op = "new" /\ inp = NoObj /\ out = NoObj

(* utcoffset(dt) with dt.fold = fold; the model asks about one wall time,   *)
(* once with each fold, and keeps both answers.                             *)
Utcoffset(dt, fold) ==
    /\ zone.kind = "ical"
    /\ op = "new" \/ (op = "utcoffset" /\ inp = dt /\ out[fold] = NotCalled)
    /\ op' = "utcoffset"
    /\ inp' = dt
    /\ out' = [f \in {0, 1} |->
                  IF f = fold THEN utcoffset(zone, dt, fold)
                  ELSE IF op = "new" THEN NotCalled ELSE out[f]]
    /\ zone' = Cached(zone, dt, fold)
    /\ UNCHANGED gvars

IcalNext == \E dt \in WallTimes, fold \in {0, 1} : Utcoffset(dt, fold)

SpecIcal == IcalInit /\ [][IcalNext]_vars

-----------------------------------------------------------------------------
(* Properties of the iCalendar zone *)

(* C2: for every zone and every wall time t, utcoffset gives an offset with *)
(* either fold, the instant t - utcoffset(t) with fold=1 is the one with    *)
(* fold=0 or a later one, and in the hours a transition with a decreasing   *)
(* offset repeats (from its onset + tzoffsetdiff up to its onset) fold=0    *)
(* gives the tzoffsetfrom and fold=1 the tzoffsetto of that transition.     *)
C2_FoldOrder ==
    (op = "utcoffset" /\ out[0] # NotCalled /\ out[1] # NotCalled)
    => /\ \A f \in {0, 1} : \E o \in IcalOffsets : out[f] = Returned(o)
       /\ inp - out[1].ret >= inp - out[0].ret
       /\ \A i \in 1..Len(zone.comps) :
              LET comp == zone.comps[i]
              IN  \A onset \in comp.rrule :
                      (comp.tzoffsetdiff < 0
                          /\ onset + comp.tzoffsetdiff <= inp /\ inp < onset)
                      => /\ out[0] = Returned(comp.tzoffsetfrom)
                         /\ out[1] = Returned(comp.tzoffsetto)

(* The failing input of C2: a zone of two DAYLIGHT components asked about a *)
(* wall time before every onset raises TypeError.                           *)
C2_Raises ==
    /\ op = "utcoffset"
    /\ Len(zone.comps) = 2
    /\ \A i \in 1..2 : zone.comps[i].isdst /\ \A o \in zone.comps[i].rrule : inp < o
    /\ out[0] = Raised("TypeError")

-----------------------------------------------------------------------------
(* _find_comp as a function of the zone and the datetime: zones of one, two *)
(* and three components, asked once.                                        *)

(* The components that swap the offsets 0 and 2 *)
SwapComps == {c \in Comps : c.tzoffsetfrom + c.tzoffsetto = 2 /\ c.tzoffsetdiff # 0}

SelectZones ==
    IcalZones \cup {tzicalvtz(<<c1, c2, c3>>) : c1 \in SwapComps, c2 \in SwapComps,
                                                c3 \in SwapComps}

SelectInit ==
    /\ GettzInit
    /\ zone \in SelectZones
    /\ op = "new" /\ inp = NoObj /\ out = NoObj

(* _find_comp(dt) with dt.fold = fold: the index of the component returned *)
FindComp(dt, fold) ==
    /\ zone.kind = "ical" /\ op = "new"
    /\ op' = "find_comp"
    /\ inp' = [dt |-> dt, fold |-> fold]
    /\ out' = find_comp(zone, dt, fold)
    /\ zone' = Cached(zone, dt, fold)
    /\ UNCHANGED gvars

SpecSelect ==
    SelectInit /\ [][\E dt \in WallTimes, fold \in {0, 1} : FindComp(dt, fold)]_vars

(* C21: in a zone of more than one component _find_comp returns a component *)
(* whose last occurrence at or before the time asked about (the wall time,  *)
(* moved by _find_compdt as the fold says) is the latest of all; when no    *)
(* component has such an occurrence it returns the first component that is  *)
(* not DST, or the first component when all are DST.  In a zone of one      *)
(* component it returns that component.                                     *)
C21_SelectsLatestOrFallback ==
    op = "find_comp"
    => LET comps == zone.comps
           occ(i) == find_compdt(comps[i], inp.dt, inp.fold)
           happened == {i \in 1..Len(comps) : occ(i) # None}
           standard == {i \in 1..Len(comps) : ~ comps[i].isdst}
       IN  IF Len(comps) = 1 THEN out = Returned(1)
           ELSE IF happened # {}
           THEN \E i \in happened :
                    /\ out = Returned(i)
                    /\ \A j \in happened : Val(occ(j)) <= Val(occ(i))
           ELSE IF standard # {}
           THEN out = Returned(CHOOSE i \in standard : \A j \in standard : i <= j)
           ELSE out = Returned(1)

(* The failing input of C21: three DAYLIGHT components, none with an onset  *)
(* at or before the time asked about; _find_comp raises TypeError.          *)
C21_RaisesTypeError ==
    /\ op = "find_comp"
    /\ Len(zone.comps) = 3
    /\ \A i \in 1..3 :
           zone.comps[i].isdst /\ find_compdt(zone.comps[i], inp.dt, inp.fold) = None
    /\ out = Raised("TypeError")

-----------------------------------------------------------------------------
(* _find_comp called by two threads on one zone.  Every access to the two   *)
(* cache lists is inside a block that holds the zone's _cache_lock          *)
(* (cache_lock here); the selection between the two blocks holds no lock.   *)
(* Each thread asks about the keys (wall time, fold) in ascending order,    *)
(* every key once or several times: arg[t] is the number of the key thread  *)
(* t asked about last, rv[t] what that call returned (NotCalled before it   *)
(* returns).                                                                *)

(* The keys in the order the threads ask about them: key i is the wall time *)
(* (i - 1) \div 2 with fold (i - 1) % 2.                                    *)
Key(i) == <<(i - 1) \div 2, (i - 1) % 2>>
MaxKey == 12             \* the keys asked about are Key(1)..Key(MaxKey)

(* The loops of _find_comp: the component with the latest onset, else the   *)
(* first standard one.                                                      *)
Selected(comps, dt, fold) ==
    LET lastcomp == LastComp(comps, dt, fold, 1, None, 0)
    IN  IF lastcomp # 0 THEN Returned(lastcomp) ELSE FirstStandard(comps)

(* A trim that drops the newest entry. *)
TrimFront(list) == IF Len(list) > CacheMax THEN Tail(list) ELSE list

(* if len(self._cachedate) > 10: pop() *)
Trim(list) ==
    IF Len(list) > CacheMax THEN SubSeq(list, 1, Len(list) - 1) ELSE list

(* The zones the threads share: standard and daylight time with onsets at   *)
(* 5 and 2, the same with a second daylight component, two daylight         *)
(* components alone, and a zone of one component.                           *)
LookupZones ==
    LET std == tzicalvtzcomp(1, 0, FALSE, {5})
        dst == tzicalvtzcomp(0, 1, TRUE, {2})
        dbl == tzicalvtzcomp(0, 2, TRUE, {2, 5})
    IN  {tzicalvtz(<<std, dst>>), tzicalvtz(<<dst, std, dbl>>),
         tzicalvtz(<<dst, dbl>>), tzicalvtz(<<std>>)}

LookupInit ==
    /\ instances = [n \in Names |-> NoObj]
    /\ strong_cache = <<>>
    /\ strong_cache_size = DefaultStrongCacheSize
    /\ held = {} /\ made = <<>> /\ stale = {}
    /\ since = [n \in Names |-> Tainted]
    /\ cache_lock = NoThread
    /\ pc = [t \in Threads |-> "idle"]
    /\ arg = [t \in Threads |-> 0]
    /\ rv = [t \in Threads |-> NotCalled]
    /\ zone \in LookupZones
    /\ op = "find_comp" /\ inp = NoObj /\ out = NoObj

(* _find_comp up to the end of the first block: the only component, or the  *)
(* cached component of the key, or a miss.                                  *)
Lookup(t, k) ==
    /\ pc[t] = "idle"
    /\ Acquirable
    /\ k \in {arg[t], arg[t] + 1} \cap (1..MaxKey)
    /\ arg' = [arg EXCEPT ![t] = k]
    /\ LET idx == CacheIndex(zone, Key(k)[1], Key(k)[2])
       IN  IF Len(zone.comps) = 1
           THEN /\ rv' = [rv EXCEPT ![t] = Returned(1)]
                /\ pc' = pc
           ELSE IF idx # 0
           THEN /\ rv' = [rv EXCEPT ![t] = Returned(zone.cachecomp[idx])]
                /\ pc' = pc
           ELSE /\ rv' = [rv EXCEPT ![t] = NotCalled]
                /\ pc' = [pc EXCEPT ![t] = "miss"]
    /\ UNCHANGED <<instances, strong_cache, strong_cache_size, cache_lock, held,
                   made, stale, since, zvars>>

(* The selection and the start of the second block: the key goes to the     *)
(* front of _cachedate.  A selection that raises leaves _find_comp.         *)
Select(t) ==
    /\ pc[t] = "miss"
    /\ Acquirable
    /\ LET lastcomp == Selected(zone.comps, Key(arg[t])[1], Key(arg[t])[2])
       IN  /\ rv' = [rv EXCEPT ![t] = lastcomp]
           /\ IF "exc" \in DOMAIN lastcomp
              THEN /\ pc' = [pc EXCEPT ![t] = "idle"]
                   /\ UNCHANGED <<zone, cache_lock>>
              ELSE /\ pc' = [pc EXCEPT ![t] = "insert"]
                   /\ cache_lock' = t
                   /\ zone' = [zone EXCEPT !.cachedate = <<Key(arg[t])>> \o @]
    /\ UNCHANGED <<instances, strong_cache, strong_cache_size, arg, held, made,
                   stale, since, op, inp, out>>

(* The rest of the second block: the component goes to the front of         *)
(* _cachecomp, both lists are cut to ten, the lock is released and the      *)
(* component returned.                                                      *)
InsertComp(t) ==
    /\ pc[t] = "insert"
    /\ cache_lock = t
    /\ zone' = [zone EXCEPT !.cachedate = Trim(@),
                            !.cachecomp = Trim(<<rv[t].ret>> \o @)]
    /\ cache_lock' = NoThread
    /\ pc' = [pc EXCEPT ![t] = "idle"]
    /\ UNCHANGED <<instances, strong_cache, strong_cache_size, arg, rv, held, made,
                   stale, since, op, inp, out>>

LookupNext ==
    \/ \E t \in Threads, k \in 1..MaxKey : Lookup(t, k)
    \/ \E t \in Threads : Select(t)
    \/ \E t \in Threads : InsertComp(t)

SpecLookup == LookupInit /\ [][LookupNext]_vars

-----------------------------------------------------------------------------
(* Properties of the lookup cache *)

(* Thread t finds its key cached in this step. *)
Hits(t, k) ==
    /\ Lookup(t, k)
    /\ Len(zone.comps) > 1
    /\ CacheIndex(zone, Key(k)[1], Key(k)[2]) # 0

(* The cache between two blocks: at most ten keys, as many components, and  *)
(* position by position the component selected for the key.                 *)
CacheAligned ==
    cache_lock = NoThread
    => /\ Len(zone.cachedate) <= CacheMax
       /\ Len(zone.cachecomp) = Len(zone.cachedate)
       /\ \A i \in 1..Len(zone.cachedate) :
              Returned(zone.cachecomp[i])
                  = Selected(zone.comps, zone.cachedate[i][1], zone.cachedate[i][2])

(* C22, as stated: the cache holds at most ten entries, keys and components *)
(* aligned, a lookup that hits an entry makes it the most recently used,    *)
(* the first of the list, and on overflow the last of the list, then the    *)
(* least recently used entry, is dropped.                                   *)
C22_HitRefreshes ==
    /\ CacheAligned
    /\ [][\A t \in Threads :
              /\ \A k \in 1..MaxKey : Hits(t, k) => zone'.cachedate[1] = Key(k)
              /\ (pc[t] = "insert" /\ pc'[t] = "idle")
                 => zone'.cachedate = SubSeq(zone.cachedate, 1, Len(zone'.cachedate))
         ]_vars

(* C22, as the code has it: the cache holds at most ten entries, keys and   *)
(* components aligned, in the order the misses inserted them, newest first; *)
(* a lookup that hits changes nothing, a miss puts its key in front, also   *)
(* when another thread inserted the same key meanwhile, and what overflows  *)
(* ten is the entry inserted longest ago.                                   *)
C22_BoundedInsertionOrder ==
    /\ CacheAligned
    /\ [][\A t \in Threads :
              /\ \A k \in 1..MaxKey : Hits(t, k) => zone' = zone
              /\ (pc[t] = "miss" /\ pc'[t] = "idle") => zone' = zone
              /\ (pc[t] = "miss" /\ pc'[t] = "insert")
                 => zone'.cachedate = <<Key(arg[t])>> \o zone.cachedate
              /\ (pc[t] = "insert" /\ pc'[t] = "idle")
                 => /\ zone'.cachedate
                          = SubSeq(zone.cachedate, 1,
                                   IF Len(zone.cachedate) > CacheMax
                                   THEN CacheMax ELSE Len(zone.cachedate))
                    /\ zone'.cachedate[1] = Key(arg[t])
         ]_vars

(* Witness of C22: the cache is full, its oldest entries have been dropped, *)
(* a key is in it twice, and a thread has just hit an entry that is not the *)
(* first.                                                                   *)
C22_Witness ==
    /\ cache_lock = NoThread
    /\ Len(zone.cachedate) = CacheMax
    /\ \A i \in 1..CacheMax : zone.cachedate[i] # Key(1)
    /\ \E i, j \in 1..CacheMax : i < j /\ zone.cachedate[i] = zone.cachedate[j]
    /\ \E t \in Threads :
           /\ pc[t] = "idle" /\ arg[t] # 0
           /\ CacheIndex(zone, Key(arg[t])[1], Key(arg[t])[2]) > 1

(* C24: in a zone of several components every _find_comp returns what the   *)
(* selection gives for its wall time and fold, from the cache as well and   *)
(* whatever the other thread does meanwhile, and every cached component is  *)
(* the selection for the key at its position.                               *)
C24_CacheTransparent ==
    Len(zone.comps) > 1
    => /\ \A t \in Threads :
              (pc[t] = "idle" /\ arg[t] # 0)
              => rv[t] = Selected(zone.comps, Key(arg[t])[1], Key(arg[t])[2])
       /\ cache_lock = NoThread
          => \A i \in 1..Len(zone.cachecomp) :
                 Returned(zone.cachecomp[i])
                     = Selected(zone.comps, zone.cachedate[i][1], zone.cachedate[i][2])

(* Witness of C24: a thread got from the cache, for the wall time 4 with    *)
(* fold=1, the standard component, while the entry of the same wall time    *)
(* with fold=0 holds the daylight component.                                *)
C24_Witness ==
    /\ Len(zone.comps) = 2
    /\ cache_lock = NoThread
    /\ \E t \in Threads : pc[t] = "idle" /\ Key(arg[t]) = <<4, 1>> /\ rv[t] = Returned(1)
    /\ \E i, j \in 1..Len(zone.cachedate) :
           /\ zone.cachedate[i] = <<4, 0>> /\ zone.cachecomp[i] = 2
           /\ zone.cachedate[j] = <<4, 1>> /\ zone.cachecomp[j] = 1
    /\ \A t \in Threads : arg[t] >= 10

-----------------------------------------------------------------------------
(* A zone of the kind tzfile reads from a compiled table: the instants of   *)
(* its transitions, ascending, the offset each one starts, and the offset   *)
(* before the first.  Times and offsets are whole hours.                    *)

MinHour == 30            \* wall times asked about are MinHour..MaxHour
MaxHour == 110
Hours == MinHour..MaxHour

tzfile(ttinfo_before, trans_list_utc, offsets) ==
    [kind |-> "tzfile", ttinfo_before |-> ttinfo_before,
     trans_list_utc |-> trans_list_utc, offsets |-> offsets]

(* The offset transition idx starts; idx = 0 is the time before the first *)
OffsetAt(z, idx) == IF idx = 0 THEN z.ttinfo_before ELSE z.offsets[idx]

(* The last transition at or before the instant utc, 0 when there is none *)
LastTransitionUtc(z, utc) ==
    Cardinality({i \in 1..Len(z.trans_list_utc) : z.trans_list_utc[i] <= utc})

(* fromutc: the wall time of an instant *)
fromutc(z, utc) == utc + OffsetAt(z, LastTransitionUtc(z, utc))

(* The wall time from which transition i can be in effect: its instant seen *)
(* with the smaller of the offsets before and after it.                     *)
TransWall(z, i) ==
    z.trans_list_utc[i]
        + (IF OffsetAt(z, i) < OffsetAt(z, i - 1) THEN OffsetAt(z, i) ELSE OffsetAt(z, i - 1))

(* The last transition whose wall time is at or before dt *)
LastTransition(z, dt) ==
    Cardinality({i \in 1..Len(z.trans_list_utc) : TransWall(z, i) <= dt})

(* The wall time dt, reached by transition idx, is shown twice: the offset  *)
(* went down at idx and dt is within that many hours of it.                 *)
TableAmbiguous(z, dt, idx) ==
    /\ idx > 0
    /\ dt < z.trans_list_utc[idx] + OffsetAt(z, idx - 1)

(* utcoffset of the wall time dt with the given fold: fold=0 takes the time *)
(* before the transition when dt is shown twice; a wall time inside a gap   *)
(* gets the offset after the gap.                                           *)
TableUtcoffset(z, dt, fold) ==
    LET idx == LastTransition(z, dt)
    IN  IF fold = 0 /\ TableAmbiguous(z, dt, idx)
        THEN OffsetAt(z, idx - 1) ELSE OffsetAt(z, idx)

-----------------------------------------------------------------------------
(* datetime_exists and resolve_imaginary.  A datetime is a wall time, its   *)
(* fold and whether it has a tzinfo (the zone under test).                  *)

HoursPerDay == 24

aware(wall, fold) == [wall |-> wall, fold |-> fold, tzinfo |-> TRUE]
naive(wall) == [wall |-> wall, fold |-> 0, tzinfo |-> FALSE]

(* datetime_exists(dt) for a datetime with a tzinfo: the wall time survives *)
(* the round trip through UTC.                                              *)
datetime_exists(z, dt) ==
    fromutc(z, dt.wall - TableUtcoffset(z, dt.wall, dt.fold)) = dt.wall

(* resolve_imaginary(dt): the datetime and whether it is the object passed  *)
(* in.  datetime arithmetic gives a new object with fold 0.                 *)
resolve_imaginary(z, dt) ==
    IF dt.tzinfo /\ ~ datetime_exists(z, dt)
    THEN LET curr_offset == TableUtcoffset(z, dt.wall + HoursPerDay, 0)
             old_offset == TableUtcoffset(z, dt.wall - HoursPerDay, 0)
         IN  [dt |-> aware(dt.wall + (curr_offset - old_offset), 0), same |-> FALSE]
    ELSE [dt |-> dt, same |-> TRUE]

(* The zones of the model: up to two transitions among offsets of 0, 1 and  *)
(* 2 hours, ten hours or more apart, and a zone that skips a whole day as   *)
(* Pacific/Kiritimati did (from -10 to +14).                                *)
TransTimes == {40, 50, 100}
TableOffsets == {0, 1, 2}

TableZones ==
    {tzfile(b, <<>>, <<>>) : b \in {0, 1}}
    \cup {tzfile(b, <<t>>, <<o>>) : b \in {0, 1}, t \in TransTimes, o \in TableOffsets}
    \cup {tzfile(b, <<t1, t2>>, <<o1, o2>>) :
              b \in {0, 1}, t1 \in {40}, t2 \in {50, 100},
              o1 \in TableOffsets, o2 \in TableOffsets}
    \cup {tzfile(-10, <<50>>, <<14>>)}

Datetimes ==
    {aware(w, f) : w \in Hours, f \in {0, 1}} \cup {naive(w) : w \in Hours}

ResolverInit ==
    /\ GettzInit
    /\ zone \in TableZones
    /\ op = "new" /\ inp = NoObj /\ out = NoObj

(* datetime_exists(dt) without tz: a naive datetime is a ValueError *)
DatetimeExists(dt) ==
    /\ zone.kind = "tzfile" /\ op = "new"
    /\ op' = "datetime_exists"
    /\ inp' = dt
    /\ out' = IF dt.tzinfo THEN Returned(datetime_exists(zone, dt))
              ELSE Raised("ValueError")
    /\ UNCHANGED <<zone, gvars>>

(* resolve_imaginary(dt) *)
ResolveImaginary(dt) ==
    /\ zone.kind = "tzfile" /\ op = "new"
    /\ op' = "resolve_imaginary"
    /\ inp' = dt
    /\ out' = <<resolve_imaginary(zone, dt)>>
    /\ UNCHANGED <<zone, gvars>>

(* resolve_imaginary applied to what resolve_imaginary returned *)
ResolveAgain ==
    /\ zone.kind = "tzfile" /\ op = "resolve_imaginary" /\ Len(out) = 1
    /\ out' = Append(out, resolve_imaginary(zone, out[1].dt))
    /\ UNCHANGED <<zone, op, inp, gvars>>

ResolverNext ==
    \/ \E dt \in Datetimes : DatetimeExists(dt)
    \/ \E dt \in Datetimes : ResolveImaginary(dt)
    \/ ResolveAgain

SpecResolver == ResolverInit /\ [][ResolverNext]_vars

-----------------------------------------------------------------------------
(* Properties of the resolver *)

Imaginary(z, w) == ~ datetime_exists(z, aware(w, 0))

(* The number of wall times of the gap around w that lie before w (d = -1)  *)
(* or after it (d = 1)                                                      *)
RECURSIVE GapSide(_, _, _)
GapSide(z, w, d) == IF Imaginary(z, w + d) THEN 1 + GapSide(z, w + d, d) ELSE 0

(* The duration of the gap the imaginary wall time w lies in *)
GapDuration(z, w) == GapSide(z, w, -1) + 1 + GapSide(z, w, 1)

(* C3: resolve_imaginary(resolve_imaginary(t)) == resolve_imaginary(t) for  *)
(* every datetime t, aware or naive, and when t exists in its zone or is    *)
(* naive the result is the object t itself.  (Datetimes of one zone are     *)
(* equal when their wall times are.)                                        *)
C3_Idempotent ==
    op = "resolve_imaginary"
    => /\ Len(out) = 2 => out[2].dt.wall = out[1].dt.wall
       /\ (~ inp.tzinfo \/ datetime_exists(zone, inp))
          => (out[1].same /\ out[1].dt = inp)

(* The failing input of C3: the result of resolve_imaginary is moved again  *)
(* by a second resolve_imaginary.                                           *)
C3_MovedAgain ==
    /\ op = "resolve_imaginary" /\ Len(out) = 2
    /\ out[2].dt.wall # out[1].dt.wall

(* C4: for a wall time inside a gap resolve_imaginary returns the wall time *)
(* moved forward by the duration of that gap, whatever that duration is,    *)
(* and the datetime it returns exists.                                      *)
C4_ShiftByGap ==
    (op = "resolve_imaginary" /\ inp.tzinfo /\ ~ datetime_exists(zone, inp))
    => /\ out[1].dt.wall = inp.wall + GapDuration(zone, inp.wall)
       /\ datetime_exists(zone, out[1].dt)

(* The failing input of C4: resolve_imaginary returns a datetime that does  *)
(* not exist.                                                               *)
C4_StillImaginary ==
    /\ op = "resolve_imaginary" /\ inp.tzinfo
    /\ ~ datetime_exists(zone, inp)
    /\ ~ datetime_exists(zone, out[1].dt)

-----------------------------------------------------------------------------
(* tzstr: the zone of a POSIX TZ string.  A string is the sequence of the   *)
(* tokens the parser splits it into: runs of letters, runs of digits and    *)
(* single other characters, so that "EST5EDT" is <<"EST", "5", "EDT">>.     *)

(* parser._parsetz(s): STDoffset[DSToffset][,Mm.w.d,Mm.w.d].  None when the *)
(* string does not follow the grammar or tokens are left over.  An offset   *)
(* is [+|-]hh and counts west of UTC: "5" and "+5" are -18000 seconds.      *)
parsetz(l) ==
    LET Numerals == <<"0", "1", "2", "3", "4", "5", "6", "7", "8", "9",
                      "10", "11", "12">>
        IsNum(t) == \E n \in 1..Len(Numerals) : Numerals[n] = t
        Num(t) == (CHOOSE n \in 1..Len(Numerals) : Numerals[n] = t) - 1
        IsAbbr(t) == t \in {"EST", "EDT", "GMT", "UTC", "BRST", "BRDT"}
        At(i) == IF i \in 1..Len(l) THEN l[i] ELSE ""
        Signed(i) ==
            IF At(i) \in {"+", "-"} /\ IsNum(At(i + 1))
            THEN <<Some((IF At(i) = "+" THEN -1 ELSE 1) * Num(At(i + 1)) * 3600),
                   i + 2>>
            ELSE IF IsNum(At(i)) THEN <<Some(-1 * Num(At(i)) * 3600), i + 1>>
            ELSE <<None, i>>
        std == Signed(2)
        hasdst == std[1] # None /\ IsAbbr(At(std[2]))
        dst == IF hasdst THEN Signed(std[2] + 1) ELSE <<None, std[2]>>
        i == dst[2]
        IsRule(j) ==
            /\ At(j) = "," /\ At(j + 1) = "M" /\ IsNum(At(j + 2))
            /\ At(j + 3) = "." /\ IsNum(At(j + 4))
            /\ At(j + 5) = "." /\ IsNum(At(j + 6))
        Rule(j) ==
            [month |-> Num(At(j + 2)),
             week |-> IF Num(At(j + 4)) = 5 THEN -1 ELSE Num(At(j + 4)),
             weekday |-> (Num(At(j + 6)) - 1) % 7]
        rules == IsRule(i) /\ IsRule(i + 7) /\ Len(l) = i + 13
    IN  IF Len(l) = 0 \/ ~ IsAbbr(At(1)) \/ ~ (rules \/ Len(l) = i - 1)
        THEN None
        ELSE Some([stdabbr |-> At(1), stdoffset |-> std[1],
                   dstabbr |-> IF hasdst THEN Some(At(std[2])) ELSE None,
                   dstoffset |-> dst[1],
                   start |-> IF rules THEN Some(Rule(i)) ELSE None,
                   end |-> IF rules THEN Some(Rule(i + 7)) ELSE None])

(* The offset tzstr hands on, once parsed: GMT and UTC offsets are flipped *)
(* unless posix_offset is set.                                             *)
PosixOffset(res, posix_offset) == res.stdoffset

FlippedOffset(res, posix_offset) ==
    IF res.stdabbr \in {"GMT", "UTC"} /\ ~ posix_offset /\ res.stdoffset # None
    THEN Some(-1 * Val(res.stdoffset))
    ELSE res.stdoffset

(* tzstr._delta without the conversion of the end to standard time *)
DstSideDelta(z, x, isend) ==
    LET week == IF x # None THEN Val(x).week ELSE IF isend THEN -1 ELSE 1
    IN  relativedelta(2,
                      IF x # None THEN Val(x).month ELSE IF isend THEN 10 ELSE 4,
                      IF week > 0 THEN 1 ELSE 31,
                      IF x # None THEN Val(x).weekday ELSE SU, week)

(* tzstr._delta(x, isend): the rule of a start or end spec, by default the  *)
(* first Sunday of April and the last Sunday of October, at 2AM; the end is *)
(* converted to standard time.  relativedelta carries 3600 seconds into an  *)
(* hour.                                                                    *)
delta(z, x, isend) ==
    LET week == IF x # None THEN Val(x).week ELSE IF isend THEN -1 ELSE 1
        seconds == 7200 - (IF isend THEN z.dst_offset - z.std_offset ELSE 0)
    IN  relativedelta(seconds \div 3600,
                      IF x # None THEN Val(x).month ELSE IF isend THEN 10 ELSE 4,
                      IF week > 0 THEN 1 ELSE 31,
                      IF x # None THEN Val(x).weekday ELSE SU, week)

(* tzstr.__init__(s, posix_offset): a tzrange whose rules come from _delta *)
tzstr(s, posix_offset) ==
    LET res == parsetz(s)
        r == Val(res)
        z == tzrange(Some(r.stdabbr), FlippedOffset(r, posix_offset),
                     r.dstabbr, r.dstoffset, None, None)
        start == IF r.dstabbr = None THEN None ELSE Some(delta(z, r.start, FALSE))
        end == IF r.dstabbr = None THEN None ELSE Some(delta(z, r.end, TRUE))
    IN  IF res = None THEN Raised("ValueError")
        ELSE Returned([z EXCEPT !.start_delta = start, !.end_delta = end,
                                !.hasdst = start # None])

-----------------------------------------------------------------------------
(* tzutc and tzoffset, and the comparison of zones.  An __eq__ gives None   *)
(* for NotImplemented.                                                      *)

tzutc == [kind |-> "tzutc"]

(* tzoffset.__init__(name, offset), the offset in seconds *)
tzoffset(name, offset) == [kind |-> "tzoffset", name |-> name, offset |-> offset]

tzutc_eq(self, other) ==
    IF other.kind \notin {"tzutc", "tzoffset"} THEN None
    ELSE Some(other.kind = "tzutc" \/ other.offset = 0)

(* An equality of tzoffsets that looks at the names as well *)
SameNameAndOffset(self, other) ==
    IF other.kind # "tzoffset" THEN None
    ELSE Some(self.offset = other.offset /\ self.name = other.name)

tzoffset_eq(self, other) ==
    IF other.kind # "tzoffset" THEN None
    ELSE Some(self.offset = other.offset)

(* tzrange.__eq__, which tzstr inherits *)
tzrange_eq(self, other) ==
    IF other.kind # "tzrange" THEN None
    ELSE Some(/\ self.std_abbr = other.std_abbr
              /\ self.dst_abbr = other.dst_abbr
              /\ self.std_offset = other.std_offset
              /\ self.dst_offset = other.dst_offset
              /\ self.start_delta = other.start_delta
              /\ self.end_delta = other.end_delta)

(* a == b: a.__eq__(b), then the reflected b.__eq__(a), then identity, and  *)
(* zones of different classes are different objects.                        *)
Equals(a, b) ==
    LET eq(x, y) == CASE x.kind = "tzutc" -> tzutc_eq(x, y)
                      [] x.kind = "tzoffset" -> tzoffset_eq(x, y)
                      [] x.kind = "tzrange" -> tzrange_eq(x, y)
    IN  IF eq(a, b) # None THEN Val(eq(a, b))
        ELSE IF eq(b, a) # None THEN Val(eq(b, a))
        ELSE FALSE

(* a != b for a tzutc or a tzoffset: not (a == b) *)
NotEquals(a, b) == ~ Equals(a, b)

(* The strings, the fixed offsets and the zones compared with *)
TzStrings ==
    {<<"EST", "5", "EDT">>, <<"EST", "5">>, <<"EST", "+", "5">>,
     <<"EST", "-", "5">>, <<"GMT", "+", "3">>, <<"UTC", "+", "3">>,
     <<"GMT", "-", "3">>, <<"UTC", "3">>, <<"BRST", "+", "3", "BRDT">>,
     <<"EST", "5", "EDT", "4">>, <<"EST", "5", "EDT", "3">>,
     <<"EST", "5", "EDT", ",", "M", "3", ".", "2", ".", "0",
       ",", "M", "11", ".", "1", ".", "0">>,
     <<"EST", "5", "EDT", ",", "M", "4", ".", "1", ".", "0",
       ",", "M", "10", ".", "5", ".", "0">>,
     <<"EST", "+">>, <<"EST", "5", "EDT", ",", "M", "3">>,
     <<"EST", "5", "EDT", "4", "EDT">>}

Tzoffsets ==
    {tzoffset(n, o) : n \in {None, Some("UTC"), Some("BRST")},
                      o \in {-10800, 0, 10800}}

CompareZones ==
    {tzutc} \cup Tzoffsets
    \cup {tzrange(Some("EST"), so, da, do, st, en) :
              so \in StdOffsets, da \in DstAbbrs, do \in DstOffsets,
              st \in {None, Some(DefaultStart)}, en \in {None, Some(DefaultEnd)}}

(* UTC exists from the import of the module on *)
CompareInit ==
    /\ GettzInit
    /\ zone = tzutc /\ op = "new" /\ inp = NoZone /\ out = NoObj

Tzstr(s, posix_offset) ==
    /\ op = "new"
    /\ op' = "tzstr"
    /\ inp' = [s |-> s, posix_offset |-> posix_offset]
    /\ out' = tzstr(s, posix_offset)
    /\ zone' = IF out' = Raised("ValueError") THEN NoZone ELSE out'.ret
    /\ UNCHANGED gvars

Tzoffset(name, offset) ==
    /\ op = "new"
    /\ op' = "tzoffset"
    /\ inp' = [name |-> name, offset |-> offset]
    /\ zone' = tzoffset(name, offset)
    /\ out' = Returned(zone')
    /\ UNCHANGED gvars

(* zone == other, other == zone, zone != other or other != zone *)
Compare(other, swapped, negated) ==
    LET a == IF swapped THEN other ELSE zone
        b == IF swapped THEN zone ELSE other
    IN  /\ op \in {"new", "tzstr", "tzoffset"}
        /\ zone # NoZone
        /\ negated => a.kind \in {"tzutc", "tzoffset"}
        /\ op' = "compare"
        /\ inp' = [args |-> inp, other |-> other,
                   swapped |-> swapped, negated |-> negated]
        /\ out' = Returned(IF negated THEN NotEquals(a, b) ELSE Equals(a, b))
        /\ UNCHANGED <<zone, gvars>>

CompareNext ==
    \/ \E s \in TzStrings, posix_offset \in BOOLEAN : Tzstr(s, posix_offset)
    \/ \E z \in Tzoffsets : Tzoffset(z.name, z.offset)
    \/ \E other \in CompareZones, swapped \in BOOLEAN, negated \in BOOLEAN :
           Compare(other, swapped, negated)

SpecCompare == CompareInit /\ [][CompareNext]_vars

-----------------------------------------------------------------------------
(* Properties of tzstr, tzoffset and tzutc *)

(* tzrange("EST", -18000, "EDT", -14400, start, end) with the 02:00 first   *)
(* Sunday of April and the 01:00 last Sunday of October spelled out         *)
Range2 ==
    tzrange(Some("EST"), Some(-18000), Some("EDT"), Some(-14400),
            Some(DefaultStart), Some(DefaultEnd))

(* C11: tzstr('EST5EDT') with the default posix_offset compares equal to    *)
(* tzrange("EST", -18000, "EDT") and to the tzrange with the explicit       *)
(* arguments; a string with a DST abbreviation and no start and end specs   *)
(* has the abbreviations, the offsets and the start rule of the default     *)
(* tzrange of its abbreviations and offsets, and as end rule 02:00 on the   *)
(* last Sunday of October less (DST offset - standard offset), which is the *)
(* default tzrange's end rule when that difference is one hour.             *)
C11_TzstrEqualsDefaultRange ==
    /\ (/\ op = "compare"
        /\ inp.args = [s |-> <<"EST", "5", "EDT">>, posix_offset |-> FALSE]
        /\ inp.other \in {EST5EDT, Range2}
        /\ ~ inp.negated)
       => out = Returned(TRUE)
    /\ \A s \in TzStrings, p \in BOOLEAN :
           LET r == Val(parsetz(s))
               d == tzrange(Some(r.stdabbr), r.stdoffset, r.dstabbr, r.dstoffset,
                            None, None)
               diff == d.dst_offset - d.std_offset
           IN  (/\ op = "tzstr" /\ inp = [s |-> s, posix_offset |-> p]
                /\ parsetz(s) # None /\ r.dstabbr # None /\ r.start = None)
               => /\ zone.std_abbr = d.std_abbr /\ zone.dst_abbr = d.dst_abbr
                  /\ zone.std_offset = d.std_offset
                  /\ zone.dst_offset = d.dst_offset
                  /\ zone.start_delta = d.start_delta
                  /\ zone.end_delta
                       = Some(relativedelta(2 - (diff \div 3600), 10, 31, SU, -1))
                  /\ diff = 3600 => Equals(zone, d)

(* Witness of C11: tzstr('EST5EDT') == range2 was evaluated and is True. *)
C11_Witness ==
    /\ op = "compare"
    /\ inp.args = [s |-> <<"EST", "5", "EDT">>, posix_offset |-> FALSE]
    /\ inp.other = Range2 /\ ~ inp.swapped /\ ~ inp.negated
    /\ zone.end_delta = Some(DefaultEnd)
    /\ out = Returned(TRUE)

(* C12: "GMT+3" and "UTC+3" give the offset +3 hours by default and -3      *)
(* hours with posix_offset, "GMT-3" and "UTC3" the opposite ones; with any  *)
(* other standard abbreviation the offset has the POSIX sign, negative for  *)
(* an unsigned or "+" offset and positive for a "-" offset, in both modes.  *)
C12_GmtOffsetSign ==
    op = "tzstr"
    => /\ inp.s \in {<<"GMT", "+", "3">>, <<"UTC", "+", "3">>, <<"UTC", "3">>}
          => zone.std_offset = (IF inp.posix_offset THEN -10800 ELSE 10800)
       /\ inp.s = <<"GMT", "-", "3">>
          => zone.std_offset = (IF inp.posix_offset THEN 10800 ELSE -10800)
       /\ inp.s \in {<<"EST", "5">>, <<"EST", "+", "5">>, <<"EST", "5", "EDT">>}
          => zone.std_offset = -18000
       /\ inp.s = <<"EST", "-", "5">> => zone.std_offset = 18000
       /\ inp.s = <<"BRST", "+", "3", "BRDT">> => zone.std_offset = -10800

(* Witness of C12: tzstr("GMT+3") is three hours ahead of UTC. *)
C12_Witness ==
    /\ op = "tzstr"
    /\ inp = [s |-> <<"GMT", "+", "3">>, posix_offset |-> FALSE]
    /\ zone.std_offset = 10800 /\ ~ zone.hasdst

(* C14: two tzoffsets are equal iff their offsets are, whatever their       *)
(* names; a tzoffset and UTC are equal iff the offset is zero, in both      *)
(* operand orders; and != gives the negation of ==.                         *)
C14_OffsetEquality ==
    (/\ op = "compare"
     /\ zone.kind \in {"tzutc", "tzoffset"}
     /\ inp.other.kind \in {"tzutc", "tzoffset"})
    => LET Offset(z) == IF z.kind = "tzutc" THEN 0 ELSE z.offset
           equal == Offset(zone) = Offset(inp.other)
       IN  out = Returned(IF inp.negated THEN ~ equal ELSE equal)

(* Witness of C14: tzoffset("UTC", 10800) == tzoffset("BRST", 10800), and   *)
(* UTC == tzoffset(None, 0) in either order.                                *)
C14_Witness ==
    /\ op = "compare" /\ ~ inp.negated
    /\ \/ /\ zone = tzoffset(Some("UTC"), 10800)
          /\ inp.other = tzoffset(Some("BRST"), 10800)
       \/ /\ zone = tzoffset(None, 0) /\ inp.other = tzutc
    /\ out = Returned(TRUE)

(* C13: a tzrange constructed without dstoffset but with a DST              *)
(* abbreviation, a start rule or an end rule has the DST offset             *)
(* standard offset + 1 hour, whether stdoffset is given or not.             *)
C13_DefaultDstOffset ==
    \A so \in StdOffsets, da \in DstAbbrs, st \in Starts, en \in Ends :
        (/\ zone = tzrange(Some("EST"), so, da, None, st, en)
         /\ (da # None \/ st # None \/ en # None))
        => zone.dst_offset = zone.std_offset + 3600

(* The failing input of C13: tzrange("EST", None, "EDT") has transitions    *)
(* and the DST offset zero, its standard offset.                            *)
C13_NoDstShift ==
    /\ op = "transitions"
    /\ zone = tzrange(Some("EST"), None, Some("EDT"), None, None, None)
    /\ zone.hasdst
    /\ zone.dst_offset = zone.std_offset

-----------------------------------------------------------------------------
(* tzical: the parser of iCalendar VTIMEZONE blocks.  A content line is its *)
(* upper-cased property name, its parameters and its value.                 *)

ContentLine(name, value) == [name |-> name, parms |-> <<>>, value |-> value]

(* A ValueError with its message, the offending text apart *)
ValueError(msg, about) == Raised([msg |-> msg, arg |-> about])

(* tzical._parse_offset(s): [+|-]hhmm in seconds *)
parse_offset(s) ==
    LET Chars == [x \in {"-0500", "-0400", "+0100", "-05", ""} |->
                     CASE x = "-0500" -> <<"-", "0", "5", "0", "0">>
                       [] x = "-0400" -> <<"-", "0", "4", "0", "0">>
                       [] x = "+0100" -> <<"+", "0", "1", "0", "0">>
                       [] x = "-05" -> <<"-", "0", "5">>
                       [] x = "" -> <<>>]
        Digit(c) == CHOOSE n \in 0..9 :
                        <<"0", "1", "2", "3", "4", "5", "6", "7", "8", "9">>[n + 1] = c
        c == Chars[s]
        signed == c # <<>> /\ c[1] \in {"+", "-"}
        signal == IF signed /\ c[1] = "-" THEN -1 ELSE 1
        d == IF signed THEN Tail(c) ELSE c
    IN  IF c = <<>> THEN ValueError("empty offset", "")
        ELSE IF Len(d) = 4
        THEN Returned(((Digit(d[1]) * 10 + Digit(d[2])) * 3600
                       + (Digit(d[3]) * 10 + Digit(d[4])) * 60) * signal)
        ELSE ValueError("invalid offset: ", s)

(* tzical._parse_rfc(s) on the unfolded lines of s: the zones registered in *)
(* _vtz, as a set of [tzid, comps], or the ValueError raised.  A component  *)
(* keeps the values of its recurrence lines where the code has the rrule    *)
(* built from them, and an unsupported parameter is reported by the name   *)
(* of its property.                                                         *)
parse_rfc(lines) ==
    LET RECURSIVE Loop(_, _)
        Step(st, line) ==
            LET name == line.name
                value == line.value
                parms == line.parms
                Err(msg, about) == [st EXCEPT !.exc = Some([msg |-> msg, arg |-> about])]
                offset == parse_offset(value)
                Offset(field) ==
                    IF parms # <<>>
                    THEN Err("unsupported parm: ", name)
                    ELSE IF "ret" \in DOMAIN offset
                    THEN [st EXCEPT ![field] = Some(offset.ret)]
                    ELSE [st EXCEPT !.exc = Some(offset.exc)]
            IN  IF ~ st.invtz
                THEN IF name = "BEGIN" /\ value = "VTIMEZONE"
                     THEN [st EXCEPT !.tzid = None, !.comps = <<>>, !.invtz = TRUE]
                     ELSE st
                ELSE IF name = "BEGIN"
                THEN IF value \in {"STANDARD", "DAYLIGHT"}
                     THEN [st EXCEPT !.comptype = Some(value),
                                     !.founddtstart = FALSE,
                                     !.tzoffsetfrom = None,
                                     !.tzoffsetto = None,
                                     !.rrulelines = <<>>]
                     ELSE Err("unknown component: ", value)
                ELSE IF name = "END"
                THEN IF value = "VTIMEZONE"
                     THEN IF st.comptype # None
                          THEN Err("component not closed: ", Val(st.comptype))
                          ELSE IF st.tzid \in {None, Some("")}
                          THEN Err("mandatory TZID not found", "")
                          ELSE IF st.comps = <<>>
                          THEN Err("at least one component is needed", "")
                          ELSE [st EXCEPT
                                  !.vtz = {z \in st.vtz : z.tzid # Val(st.tzid)}
                                          \cup {[tzid |-> Val(st.tzid),
                                                 comps |-> st.comps]},
                                  !.invtz = FALSE]
                     ELSE IF Some(value) = st.comptype
                     THEN IF ~ st.founddtstart
                          THEN Err("mandatory DTSTART not found", "")
                          ELSE IF st.tzoffsetfrom = None
                          THEN Err("mandatory TZOFFSETFROM not found", "")
                          ELSE IF st.tzoffsetto = None
                          THEN Err("mandatory TZOFFSETFROM not found", "")
                          ELSE [st EXCEPT
                                  !.comps = Append(st.comps,
                                      tzicalvtzcomp(Val(st.tzoffsetfrom),
                                                    Val(st.tzoffsetto),
                                                    value = "DAYLIGHT",
                                                    Range(st.rrulelines))),
                                  !.comptype = None]
                     ELSE Err("invalid component end: ", value)
                ELSE IF st.comptype # None
                THEN IF name = "DTSTART"
                     THEN IF \E i \in 1..Len(parms) : parms[i] # "VALUE=DATE-TIME"
                          THEN Err("Unsupported DTSTART param in VTIMEZONE: ", name)
                          ELSE [st EXCEPT !.rrulelines = Append(@, value),
                                          !.founddtstart = TRUE]
                     ELSE IF name \in {"RRULE", "RDATE", "EXRULE", "EXDATE"}
                     THEN [st EXCEPT !.rrulelines = Append(@, value)]
                     ELSE IF name = "TZOFFSETFROM" THEN Offset("tzoffsetfrom")
                     ELSE IF name = "TZOFFSETTO" THEN Offset("tzoffsetto")
                     ELSE IF name = "TZNAME"
                     THEN IF parms # <<>> THEN Err("unsupported parm: ", name) ELSE st
                     ELSE IF name = "COMMENT" THEN st
                     ELSE Err("unsupported property: ", name)
                ELSE IF name = "TZID"
                     THEN IF parms # <<>> THEN Err("unsupported parm: ", name)
                          ELSE [st EXCEPT !.tzid = Some(value)]
                     ELSE IF name \in {"TZURL", "LAST-MODIFIED", "COMMENT"} THEN st
                     ELSE Err("unsupported property: ", name)
        Loop(st, rest) ==
            IF st.exc # None THEN Raised(Val(st.exc))
            ELSE IF rest = <<>> THEN Returned(st.vtz)
            ELSE Loop(Step(st, Head(rest)), Tail(rest))
    IN  IF lines = <<>> THEN ValueError("empty string", "")
        ELSE Loop([tzid |-> None, comps |-> <<>>, invtz |-> FALSE,
                   comptype |-> None, founddtstart |-> FALSE,
                   tzoffsetfrom |-> None, tzoffsetto |-> None,
                   rrulelines |-> <<>>, vtz |-> {}, exc |-> None], lines)

(* The inputs: a VTIMEZONE of a STANDARD and a DAYLIGHT sub-block, the same *)
(* with the two END lines of the sub-blocks exchanged, and the same with a  *)
(* TZOFFSETTO that is no offset; and every text that leaves lines of one of *)
(* them out.                                                                *)
IcalDocs ==
    LET Doc(end1, end2, to) ==
            <<ContentLine("BEGIN", "VTIMEZONE"),
              ContentLine("TZID", "US-Eastern"),
              ContentLine("BEGIN", "STANDARD"),
              ContentLine("DTSTART", "19981025T020000"),
              ContentLine("TZOFFSETFROM", "-0400"),
              ContentLine("TZOFFSETTO", "-0500"),
              ContentLine("END", end1),
              ContentLine("BEGIN", "DAYLIGHT"),
              ContentLine("DTSTART", "19990404T020000"),
              ContentLine("TZOFFSETFROM", "-0500"),
              ContentLine("TZOFFSETTO", to),
              ContentLine("END", end2),
              ContentLine("END", "VTIMEZONE")>>
    IN  {Doc("STANDARD", "DAYLIGHT", "-0400"),
         Doc("DAYLIGHT", "STANDARD", "-0400"),
         Doc("STANDARD", "DAYLIGHT", "-05")}

(* The lines of doc at the positions of keep, in their order *)
Keep(doc, keep) ==
    LET RECURSIVE Sub(_)
        Sub(i) == IF i > Len(doc) THEN <<>>
                  ELSE (IF i \in keep THEN <<doc[i]>> ELSE <<>>) \o Sub(i + 1)
    IN  Sub(1)

TzicalInit ==
    /\ GettzInit
    /\ zone = NoZone /\ op = "new" /\ out = NoObj
    /\ \E doc \in IcalDocs, keep \in SUBSET (1..13) : inp = Keep(doc, keep)

(* tzical(fileobj): the whole text is parsed by _parse_rfc *)
Tzical ==
    /\ op = "new"
    /\ op' = "tzical"
    /\ out' = parse_rfc(inp)
    /\ UNCHANGED <<zone, inp, gvars>>

SpecTzical == TzicalInit /\ [][Tzical]_vars

-----------------------------------------------------------------------------
(* Properties of tzical *)

(* The text of IcalDocs that is well formed *)
UsEastern ==
    CHOOSE doc \in IcalDocs : doc[7].value = "STANDARD" /\ doc[11].value = "-0400"

(* C15: when a STANDARD or DAYLIGHT sub-block lacks one of DTSTART,         *)
(* TZOFFSETFROM and TZOFFSETTO, parsing raises an error whose message names *)
(* the property that is missing.                                            *)
C15_MissingPropertyNamed ==
    \A i \in {4, 5, 6, 9, 10, 11} :
        (op = "tzical" /\ inp = Keep(UsEastern, (1..13) \ {i}))
        => out = ValueError(CASE UsEastern[i].name = "DTSTART"
                                   -> "mandatory DTSTART not found"
                              [] UsEastern[i].name = "TZOFFSETFROM"
                                   -> "mandatory TZOFFSETFROM not found"
                              [] UsEastern[i].name = "TZOFFSETTO"
                                   -> "mandatory TZOFFSETTO not found", "")

(* The failing input of C15: the STANDARD sub-block has no TZOFFSETTO and   *)
(* the error names TZOFFSETFROM, which is there.                            *)
C15_WrongPropertyNamed ==
    /\ op = "tzical"
    /\ inp = Keep(UsEastern, (1..13) \ {6})
    /\ \E j \in 1..Len(inp) : inp[j].name = "TZOFFSETFROM" /\ j < 6
    /\ out = ValueError("mandatory TZOFFSETFROM not found", "")

(* C16: parsing raises an error for every input with a sub-block that is    *)
(* followed by another BEGIN, by END:VTIMEZONE, by the END of another       *)
(* component or by the end of the input before its own END, with a          *)
(* VTIMEZONE that has no END:VTIMEZONE, or with an END line that names      *)
(* another component than the BEGIN line before it; nothing is registered.  *)
C16_UnterminatedFails ==
    op = "tzical"
    => LET IsStructure(l) == l.name \in {"BEGIN", "END"}
           S == SelectSeq(inp, IsStructure)
           unterminated ==
               \/ \E i \in 1..Len(S) :
                      /\ S[i].name = "BEGIN"
                      /\ S[i].value \in {"STANDARD", "DAYLIGHT"}
                      /\ (i = Len(S) \/ S[i + 1] # ContentLine("END", S[i].value))
               \/ \E i \in 1..Len(S) :
                      /\ S[i] = ContentLine("BEGIN", "VTIMEZONE")
                      /\ \A j \in (i + 1)..Len(S) :
                             S[j] # ContentLine("END", "VTIMEZONE")
           mismatch ==
               \E i \in 2..Len(S) :
                   /\ S[i].name = "END" /\ S[i - 1].name = "BEGIN"
                   /\ S[i].value # S[i - 1].value
       IN  (unterminated \/ mismatch) => "exc" \in DOMAIN out

(* The failing input of C16: the STANDARD sub-block has no END:STANDARD,    *)
(* the text parses and the zone is registered with the DAYLIGHT component   *)
(* alone.                                                                   *)
C16_DroppedComponent ==
    /\ op = "tzical"
    /\ inp = Keep(UsEastern, (1..13) \ {7})
    /\ out = Returned({[tzid |-> "US-Eastern",
                        comps |-> <<tzicalvtzcomp(-18000, -14400, TRUE,
                                                  {"19990404T020000"})>>]})

-----------------------------------------------------------------------------
(* GettzFunc.nocache in an environment: env.TZ is os.environ["TZ"]          *)
(* (NoneName when it is not set) and env.fs tells of a file, a pair of a    *)
(* directory and a name, whether it is absent, a zone file ("ok"), a file   *)
(* tzfile() cannot parse ("corrupt") or a file that cannot be opened        *)
(* ("unreadable").  The bundled zoneinfo database and tzwin offer nothing.  *)

(* The model searches two of the four directories of TZPATHS *)
TZPATHS == <<"/usr/share/zoneinfo", "/usr/lib/zoneinfo">>

(* No name stands for UTC. *)
NoUtcName(name) == FALSE

(* name in ("GMT", "UTC") *)
IsUtcName(name) == name \in {"GMT", "UTC"}

(* filepath.replace(' ', '_') *)
Underscored(name) ==
    IF name = "America/New York" THEN "America/New_York" ELSE name

(* The key a zone file would get from the name of its file *)
FileKey(name, filepath) == filepath[2]

(* tzfile(filepath, key=name): the key is the name gettz was asked for *)
KeyOf(name, filepath) == name

(* tzfile(f, key=key) *)
Open(fs, f, key) ==
    CASE fs[f] = "ok" -> Returned([kind |-> "tzfile", filename |-> f, key |-> key])
      [] fs[f] = "corrupt" -> Raised("ValueError")
      [] fs[f] = "unreadable" -> Raised("IOError")

(* A try without an except clause. *)
ExceptsNothing(r) == FALSE

(* except (IOError, OSError, ValueError): pass *)
ExceptsError(r) == "exc" \in DOMAIN r /\ r.exc \in {"IOError", "ValueError"}

(* nocache(name): what it returns or raises, and the exceptions it caught   *)
(* on the way, each with the file or the string it came from.               *)
nocache_env(env, name) ==
    LET n0 == IF name \in {NoneName, ""} /\ env.TZ # NoneName THEN env.TZ ELSE name
        IsFile(f) == f \in DOMAIN env.fs /\ env.fs[f] # "absent"
        Failed(r) == ExceptsError(r)
        Caught(r, f) == IF Failed(r) THEN {[exc |-> r.exc, from |-> f]} ELSE {}
        Gives(z, caught) == [out |-> Returned(z), caught |-> caught]
        (* name is None or name in ("", ":") *)
        etc == <<"/etc", "localtime">>
        r1 == Open(env.fs, etc, None)
        c1 == IF IsFile(etc) THEN Caught(r1, etc) ELSE {}
        found == {i \in 1..Len(TZPATHS) : IsFile(<<TZPATHS[i], "localtime">>)}
        loc == <<TZPATHS[CHOOSE i \in found : \A j \in found : i <= j], "localtime">>
        r2 == Open(env.fs, loc, None)
        local ==
            IF IsFile(etc) /\ ~ Failed(r1) THEN [out |-> r1, caught |-> {}]
            ELSE IF found # {} /\ ~ Failed(r2) THEN [out |-> r2, caught |-> c1]
            ELSE Gives([kind |-> "tzlocal"],
                       c1 \cup (IF found # {} THEN Caught(r2, loc) ELSE {}))
        (* any other name *)
        n1 == IF n0 = ":UTC" THEN "UTC" ELSE n0
        abs == <<"", n1>>
        Rest(caught) ==
            IF n1 \in DigitNames
            THEN IF n1 \in TzstrNames THEN Gives([kind |-> "tzstr", s |-> n1], caught)
                 ELSE Gives(NoZone, caught \cup {[exc |-> "ValueError",
                                                  from |-> <<"tzstr", n1>>]})
            ELSE IF IsUtcName(n1) THEN Gives(tzutc, caught)
            ELSE IF n1 \in TimeTzname THEN Gives([kind |-> "tzlocal"], caught)
            ELSE Gives(NoZone, caught)
        RECURSIVE Search(_, _)
        Search(i, caught) ==
            IF i > Len(TZPATHS) THEN Rest(caught)
            ELSE LET verbatim == <<TZPATHS[i], n1>>
                     f == IF IsFile(verbatim) THEN verbatim
                          ELSE <<TZPATHS[i], Underscored(n1)>>
                     r == Open(env.fs, f, Some(KeyOf(n1, f)))
                 IN  IF ~ IsFile(f) THEN Search(i + 1, caught)
                     ELSE IF ~ Failed(r) THEN [out |-> r, caught |-> caught]
                     ELSE Search(i + 1, caught \cup Caught(r, f))
    IN  IF n0 = NoneName \/ n0 \in {"", ":"} THEN local
        ELSE IF n1 \in AbsNames
        THEN IF IsFile(abs) THEN [out |-> Open(env.fs, abs, None), caught |-> {}]
             ELSE Gives(NoZone, {})
        ELSE Search(1, {})

(* The environments and the names of the model: of the files, those the     *)
(* name can lead to are there or not, and no others are.                    *)
NocacheInit ==
    /\ GettzInit
    /\ zone = NoZone /\ op = "new" /\ out = <<>>
    /\ \E name \in {NoneName, "", ":", "UTC", "GMT", ":UTC", "America/Chicago",
                    "posix/America/Chicago", "America/New York", "EST5EDT",
                    "EST5EDT,M", "PST", "No/Such", "/etc/localtime"},
          TZ \in {NoneName, "UTC", "No/Such", "America/Chicago"} :
         LET n0 == IF name \in {NoneName, ""} /\ TZ # NoneName THEN TZ ELSE name
             n1 == IF n0 = ":UTC" THEN "UTC" ELSE n0
             files ==
                 IF n0 = NoneName \/ n0 \in {"", ":"}
                 THEN {<<"/etc", "localtime">>}
                      \cup {<<TZPATHS[i], "localtime">> : i \in 1..Len(TZPATHS)}
                 ELSE IF n1 \in AbsNames THEN {<<"", n1>>}
                 ELSE {<<TZPATHS[i], n>> : i \in 1..Len(TZPATHS),
                                          n \in {n1, Underscored(n1)}}
         IN  \E fs \in [files -> {"absent", "ok", "corrupt", "unreadable"}] :
                 inp = [env |-> [TZ |-> TZ, fs |-> fs], name |-> name]

(* gettz(name), called up to twice by a caller that keeps what it got: the  *)
(* second call finds what the first one stored in the weak cache.           *)
Gettz ==
    LET hit == /\ out # <<>>
               /\ "ret" \in DOMAIN out[1].out
               /\ inp.name # NoneName
               /\ out[1].out.ret.kind \notin {"tzlocal", "none"}
    IN  /\ op \in {"new", "gettz"}
        /\ Len(out) < 2
        /\ op' = "gettz"
        /\ out' = Append(out, IF hit THEN [out |-> out[1].out, caught |-> {}]
                              ELSE nocache_env(inp.env, inp.name))
        /\ UNCHANGED <<zone, inp, gvars>>

SpecNocache == NocacheInit /\ [][Gettz]_vars

-----------------------------------------------------------------------------
(* Properties of gettz's resolution of a name *)

C18_NoArgumentIsLocal ==
    (op = "gettz" /\ inp.name \in {NoneName, ""})
    => \A i \in 1..Len(out) :
           /\ "ret" \in DOMAIN out[i].out
           /\ out[i].out.ret.kind \in {"tzfile", "tzlocal"}
           /\ out[i].out.ret.kind = "tzfile"
              => out[i].out.ret.filename[2] = "localtime"
           /\ \A other \in {NoneName, ""} :
                  out[i].out = nocache_env(inp.env, other).out

(* The failing input of C18: TZ names no zone and gettz() returns None. *)
C18_NoSuchZone ==
    /\ op = "gettz" /\ inp.name = NoneName
    /\ inp.env.TZ = "No/Such"
    /\ out[1].out = Returned(NoZone)

(* C19, as stated: gettz("UTC") and gettz("GMT") return the singleton UTC,  *)
(* whatever files there are.                                                *)
C19_AlwaysSingleton ==
    (op = "gettz" /\ inp.name \in {"UTC", "GMT"})
    => \A i \in 1..Len(out) : out[i].out = Returned(tzutc)

(* C19, as the code has it: gettz("UTC") and gettz("GMT") return the        *)
(* singleton UTC when no directory of TZPATHS has a zone file of that name  *)
(* that parses, and otherwise the tzfile of the first such file.            *)
C19_SingletonUnlessZoneFile ==
    (op = "gettz" /\ inp.name \in {"UTC", "GMT"})
    => \A i \in 1..Len(out) :
           LET ok == {j \in 1..Len(TZPATHS) :
                          inp.env.fs[<<TZPATHS[j], inp.name>>] = "ok"}
               first == CHOOSE j \in ok : \A k \in ok : j <= k
           IN  IF ok = {} THEN out[i].out = Returned(tzutc)
               ELSE out[i].out
                      = Returned([kind |-> "tzfile",
                                  filename |-> <<TZPATHS[first], inp.name>>,
                                  key |-> Some(inp.name)])

(* Witness of C19: there is a zone file UTC and gettz("UTC") is its tzfile. *)
C19_Witness ==
    /\ op = "gettz" /\ inp.name = "UTC"
    /\ inp.env.fs[<<TZPATHS[1], "UTC">>] = "ok"
    /\ out[1].out.ret.kind = "tzfile"
    /\ out[1].out.ret # tzutc

(* C20: when gettz(k) returns a tzfile for an IANA key k, with a prefix or  *)
(* not, the key of the zone is k, from the cache as well and when the file  *)
(* has underscores for the spaces of k.                                     *)
C20_KeyIsName ==
    (/\ op = "gettz"
     /\ inp.name \in {"UTC", "GMT", "America/Chicago", "posix/America/Chicago",
                      "America/New York", "EST5EDT", "PST", "No/Such"})
    => \A i \in 1..Len(out) :
           ("ret" \in DOMAIN out[i].out /\ out[i].out.ret.kind = "tzfile")
           => out[i].out.ret.key = Some(inp.name)

(* Witness of C20: the file America/New_York serves "America/New York", a   *)
(* second time from the cache.                                              *)
C20_Witness ==
    /\ op = "gettz" /\ Len(out) = 2
    /\ inp.name = "America/New York"
    /\ out[2].out.ret.kind = "tzfile"
    /\ out[2].out.ret.filename[2] = "America/New_York"
    /\ out[2].out.ret.key = Some("America/New York")

=============================================================================
